---- MODULE Spec2Model ----
(***************************************************************************)
(* Model of the 2-of-3 erasure codec of package erasure (src/erasure.go,   *)
(* lines 1-274): Encode, Decode, validate, the fixed-width integer codecs, *)
(* the Adler-32 checksum and the word-wise xor.                            *)
(*                                                                         *)
(* A byte is a number in 0..255 and a []byte is a sequence of bytes; index *)
(* i of the Go slice is index i+1 of the sequence.  Every buffer has       *)
(* cap = len (make([]byte, n), as Encode and the tests allocate them).     *)
(* uint32 and uint64 values are kept as sequences of 16-bit limbs, most    *)
(* significant first, so that every value stays a small integer.           *)
(***************************************************************************)
EXTENDS Integers, Sequences, FiniteSets, TLC

\* ------------------------------------------------------------------ bounds
\* Longest payload handed to Encode.
MaxLen == 12
\* Number of successive Decode calls on the same three buffers.
MaxDecode == 2
\* Largest number of bytes cut from the end of a block.
MaxTrunc == 1
\* Number of blocks that are lost, corrupted or cut short.
MaxBad == 2
\* Longest buffer that is left when all three are cut to the same length.
MaxShort == 12
\* Longest buffer handed to xor directly.
MaxXorLen == 17

\* ------------------------------------------------------- program constants
\* 1 byte for order, 8 bytes for alen/blen
HeaderLen == 9
\* 4 bytes for the checksum
SumLen == 4
\* modulus of hash/adler32
AdlerMod == 65521

Byte == 0..255
\* One limb of a uint32 or uint64 holds 16 bits.
Limb == 256 * 256

Min(a, b) == IF a < b THEN a ELSE b

\* a ^ b on bytes, bit by bit.
RECURSIVE XorBits(_, _, _)
XorBits(a, b, n) ==
    IF n = 0 THEN 0
    ELSE ((a + b) % 2) + 2 * XorBits(a \div 2, b \div 2, n - 1)

\* The xor of every pair of bytes, computed once.
XorTable == [a \in Byte |-> [b \in Byte |-> XorBits(a, b, 8)]]

BXor(a, b) == XorTable[a][b]

Zeros(n) == [i \in 1..n |-> 0]

\* Go's s[lo:hi] on a sequence (0-based, hi exclusive).
Slice(s, lo, hi) == SubSeq(s, lo + 1, hi)

\* copy(dst[off:off+n], src): min(n, len(src)) bytes are copied.
Copy(dst, off, n, src) ==
    LET k == Min(n, Len(src))
    IN  [i \in 1..Len(dst) |->
            IF i > off /\ i <= off + k THEN src[i - off] ELSE dst[i]]

\* dst[off:off+len(src)] = src
Put(dst, off, src) == Copy(dst, off, Len(src), src)

\* ------------------------------------------------------------- checksum
\* adler32.Checksum: a = 1 + sum of bytes, b = sum of the running a's,
\* both modulo 65521; the uint32 is b<<16 | a, kept as <<b, a>>.
RECURSIVE AdlerLoop(_, _, _, _)
AdlerLoop(data, i, a, b) ==
    IF i > Len(data) THEN <<b, a>>
    ELSE LET a2 == (a + data[i]) % AdlerMod
         IN  AdlerLoop(data, i + 1, a2, (b + a2) % AdlerMod)

chcksum(data) == AdlerLoop(data, 1, 1, 0)

\* ------------------------------------------------- fixed-width integers
\* uint32 as <<hi16, lo16>>; dst[0] gets bits 24..31.
uint32b(u) ==
    << u[1] \div 256, u[1] % 256, u[2] \div 256, u[2] % 256 >>

buint32(b) ==
    << b[1] * 256 + b[2], b[3] * 256 + b[4] >>

\* uint64b with the least significant byte first.
uint64bLittle(u) ==
    << u[4] % 256, u[4] \div 256, u[3] % 256, u[3] \div 256,
       u[2] % 256, u[2] \div 256, u[1] % 256, u[1] \div 256 >>

\* uint64 as four 16-bit limbs; dst[0] gets bits 56..63.
uint64b(u) ==
    << u[1] \div 256, u[1] % 256, u[2] \div 256, u[2] % 256,
       u[3] \div 256, u[3] % 256, u[4] \div 256, u[4] % 256 >>

buint64(b) ==
    << b[1] * 256 + b[2], b[3] * 256 + b[4],
       b[5] * 256 + b[6], b[7] * 256 + b[8] >>

\* uint64(n) for a slice length n.
U64(n) == << 0, 0, n \div Limb, n % Limb >>

U64Zero == << 0, 0, 0, 0 >>

\* A length too large for any buffer: what a uint64 of 2^30 or more
\* amounts to when it is used as a slice bound.
Huge == Limb * (Limb \div 4)

\* The uint64 as a slice bound.
IntOf(u) ==
    IF u[1] = 0 /\ u[2] = 0 /\ u[3] < Limb \div 4
    THEN u[3] * Limb + u[4]
    ELSE Huge

\* ------------------------------------------------------------------ xor
\* fast64bitsXor with a loop that stops one word early.
fast64bitsXorShort(dst, blockA, blockB) ==
    LET n == (Len(dst) \div 8) - 1
    IN  [k \in 1..Len(dst) |->
            IF (k - 1) \div 8 < n THEN BXor(blockA[k], blockB[k]) ELSE dst[k]]

\* fast64bitsXor: the first len(dst)/8 words of 8 bytes are xor'ed; a word
\* xor is the xor of its 8 bytes, whatever the byte order of the machine.
fast64bitsXor(dst, blockA, blockB) ==
    LET n == Len(dst) \div 8
    IN  [k \in 1..Len(dst) |->
            IF (k - 1) \div 8 < n THEN BXor(blockA[k], blockB[k]) ELSE dst[k]]

\* xor without its byte loop: only the whole words are xor'ed.
xorWordsOnly(dst, blockA, blockB) == fast64bitsXor(dst, blockA, blockB)

\* xor(dst, blockA, blockB): len(dst)%8 bytes one by one, then the words.
xor(dst, blockA, blockB) ==
    LET extra == Len(dst) % 8
        head  == [i \in 1..extra |-> BXor(blockA[i], blockB[i])]
        tail  == fast64bitsXor(Slice(dst, extra, Len(dst)),
                               Slice(blockA, extra, Len(blockA)),
                               Slice(blockB, extra, Len(blockB)))
    IN  head \o tail

\* --------------------------------------------------------------- Encode
\* The lengths Encode computes: alen, blen and blocklen.
EncodeLens(data) ==
    LET alen == Len(data) \div 2
        blen == IF (Len(data) \div 2) % 2 # 0 THEN alen + 1 ELSE alen
    IN  [alen |-> alen, blen |-> blen, blocklen |-> blen + (1 + 8 + 4)]

\* A block of blocklen bytes: order, length, data, then the checksum of
\* the first sumlen bytes in the last 4 bytes.
Frame(order, n, payload, blocklen, sumlen) ==
    LET b0 == Zeros(blocklen)
        b1 == Put(b0, 0, << order >>)
        b2 == Put(b1, 1, uint64b(U64(n)))
        b3 == Copy(b2, HeaderLen, n, payload)
    IN  Put(b3, blocklen - SumLen, uint32b(chcksum(Slice(b3, 0, sumlen))))

\* Encode(data): the blocks <<a, b, x>>.
Encode(data) ==
    LET l  == EncodeLens(data)
        a  == Frame(1, l.alen, Slice(data, 0, l.alen), l.blocklen,
                    l.blocklen - SumLen)
        b  == Frame(2, l.blen, Slice(data, l.alen, Len(data)), l.blocklen,
                    HeaderLen + l.blen)
        x0 == Zeros(l.blocklen)
        x1 == Put(x0, 0, xor(Slice(x0, 0, HeaderLen + l.blen),
                             Slice(a, 0, HeaderLen + l.blen),
                             Slice(b, 0, HeaderLen + l.blen)))
        x  == Put(x1, l.blocklen - SumLen,
                  uint32b(chcksum(Slice(x1, 0, l.blocklen - SumLen))))
    IN  << a, b, x >>

\* ------------------------------------------------------------- validate
\* validate reading the header before it looks at the comparison.
validateHeaderAnyway(block) ==
    LET l == Len(block)
    IN  IF l < HeaderLen
        THEN [panic |-> TRUE, pos |-> 0, len |-> U64Zero, good |-> FALSE]
        ELSE [panic |-> FALSE, pos |-> block[1],
              len |-> buint64(Slice(block, 1, HeaderLen)),
              good |-> buint32(Slice(block, l - SumLen, l))
                         = chcksum(Slice(block, 0, l - SumLen))]

\* validate(block): <<order, declared length, good>>.  It panics where a
\* slice expression is out of range: block[l-4:l] when l < 4, block[1:9]
\* of a block that passed the comparison when l < 9.
validate(block) ==
    LET l == Len(block)
    IN  IF l < SumLen
        THEN [panic |-> TRUE, pos |-> 0, len |-> U64Zero, good |-> FALSE]
        ELSE LET expected == buint32(Slice(block, l - SumLen, l))
                 actual   == chcksum(Slice(block, 0, l - SumLen))
             IN  IF expected # actual
                 THEN [panic |-> FALSE, pos |-> 0, len |-> U64Zero,
                       good |-> FALSE]
                 ELSE IF l < HeaderLen
                 THEN [panic |-> TRUE, pos |-> 0, len |-> U64Zero,
                       good |-> FALSE]
                 ELSE [panic |-> FALSE, pos |-> block[1],
                       len |-> buint64(Slice(block, 1, HeaderLen)),
                       good |-> TRUE]

\* --------------------------------------------------------------- Decode
\* What a Decode call returns: (result, broken, err), or a run-time panic.
\* broken is the argument slot (1..3) of the returned block, 0 for nil.
Returned(result, broken) ==
    [result |-> result, resultNil |-> FALSE, broken |-> broken,
     err |-> "nil", panic |-> FALSE]

Failed(msg) ==
    [result |-> << >>, resultNil |-> TRUE, broken |-> 0,
     err |-> msg, panic |-> FALSE]

Panicked ==
    [result |-> << >>, resultNil |-> TRUE, broken |-> 0,
     err |-> "panic", panic |-> TRUE]

\* The size test at the head of Decode.
SizeMismatch(blocks) ==
    Len(blocks[1]) # Len(blocks[2]) /\ Len(blocks[2]) # Len(blocks[3])

\* BrokenOf with the first case handing back a good block.
BrokenOfFirstGood(v) ==
    CASE v[1].good /\ v[2].good -> 1
      [] v[1].good /\ v[3].good -> 2
      [] v[2].good /\ v[3].good -> 1
      [] OTHER -> 0

\* The first switch of Decode: the block handed back as broken.
BrokenOf(v) ==
    CASE v[1].good /\ v[2].good -> 3
      [] v[1].good /\ v[3].good -> 2
      [] v[2].good /\ v[3].good -> 1
      [] OTHER -> 0

NoRoles ==
    [blockA |-> 0, blockB |-> 0, blockX |-> 0,
     agood |-> FALSE, bgood |-> FALSE, xgood |-> FALSE,
     alen |-> U64Zero, blen |-> U64Zero]

\* One "switch pos" of Decode, for argument slot i.
AssignRole(r, i, vi) ==
    CASE vi.pos = 1 ->
            [r EXCEPT !.blockA = i, !.agood = vi.good, !.alen = vi.len]
      [] vi.pos = 2 ->
            [r EXCEPT !.blockB = i, !.bgood = vi.good, !.blen = vi.len]
      [] vi.pos = 3 ->
            [r EXCEPT !.blockX = i, !.xgood = vi.good]
      [] OTHER -> r

\* RolesOf taking the roles from the argument positions (A, B, X in that
\* order) instead of the order bytes.
RolesBySlot(v) ==
    [blockA |-> 1, blockB |-> 2, blockX |-> 3,
     agood |-> v[1].good, bgood |-> v[2].good, xgood |-> v[3].good,
     alen |-> v[1].len, blen |-> v[2].len]

RolesOf(v) ==
    AssignRole(AssignRole(AssignRole(NoRoles, 1, v[1]), 2, v[2]), 3, v[3])

\* s[lo:hi] is in range for a slice of capacity c.
InRange(lo, hi, c) == 0 <= lo /\ lo <= hi /\ hi <= c

\* Argument s of Decode; slot 0 is the nil slice of a role no block took.
Buf(blocks, s) == IF s = 0 THEN << >> ELSE blocks[s]

\* append(base[9:9+n], tail...) where base is argument slot s of blocks:
\* the tail is written into base's array when it fits its capacity.
AppendInto(blocks, s, n, tail) ==
    LET base == blocks[s]
        head == Slice(base, HeaderLen, HeaderLen + n)
    IN  IF n + Len(tail) <= Len(base) - HeaderLen
        THEN [result |-> head \o tail,
              mem |-> [blocks EXCEPT ![s] = Put(base, HeaderLen + n, tail)]]
        ELSE [result |-> head \o tail, mem |-> blocks]

\* PassThrough slicing B's data with A's length.
PassThroughSameLen(blocks, r, broken) ==
    LET alen == IntOf(r.alen)
        b    == Slice(Buf(blocks, r.blockB), HeaderLen, HeaderLen + alen)
        ap   == AppendInto(blocks, r.blockA, alen, b)
    IN  [out |-> Returned(ap.result, broken), mem |-> ap.mem]

\* "don't need to reconstruct": A and B are good.
PassThrough(blocks, r, broken) ==
    LET alen == IntOf(r.alen)
        blen == IntOf(r.blen)
        bufA == Buf(blocks, r.blockA)
        bufB == Buf(blocks, r.blockB)
    IN  IF ~InRange(HeaderLen, HeaderLen + alen, Len(bufA))
           \/ ~InRange(HeaderLen, HeaderLen + blen, Len(bufB))
        THEN [out |-> Panicked, mem |-> blocks]
        ELSE LET b  == Slice(bufB, HeaderLen, HeaderLen + blen)
                 ap == AppendInto(blocks, r.blockA, alen, b)
             IN  [out |-> Returned(ap.result, broken), mem |-> ap.mem]

\* RebuildA taking A's length from validate's result for the lost block
\* instead of from the rebuilt header.
RebuildAStaleLen(blocks, r, broken) ==
    LET n    == Len(blocks[1]) - SumLen
        blen == IntOf(r.blen)
    IN  IF n < 0 \/ ~InRange(0, n, Len(Buf(blocks, r.blockB)))
           \/ ~InRange(0, n, Len(Buf(blocks, r.blockX)))
           \/ ~InRange(1, HeaderLen, n)
        THEN [out |-> Panicked, mem |-> blocks]
        ELSE LET b    == Slice(Buf(blocks, r.blockB), 0, n)
                 x    == Slice(Buf(blocks, r.blockX), 0, n)
                 a    == xor(Zeros(n), b, x)
                 alen == IntOf(r.alen)
             IN  IF ~InRange(HeaderLen, HeaderLen + alen, n)
                    \/ ~InRange(HeaderLen, HeaderLen + blen,
                                Len(Buf(blocks, r.blockB)))
                 THEN [out |-> Panicked, mem |-> blocks]
                 ELSE [out |-> Returned(
                                 Slice(a, HeaderLen, HeaderLen + alen)
                                 \o Slice(Buf(blocks, r.blockB), HeaderLen,
                                          HeaderLen + blen),
                                 broken),
                       mem |-> blocks]

\* "reconstruct A from B and X"
RebuildA(blocks, r, broken) ==
    LET n    == Len(blocks[1]) - SumLen
        blen == IntOf(r.blen)
    IN  IF n < 0 \/ ~InRange(0, n, Len(Buf(blocks, r.blockB)))
           \/ ~InRange(0, n, Len(Buf(blocks, r.blockX)))
           \/ ~InRange(1, HeaderLen, n)
        THEN [out |-> Panicked, mem |-> blocks]
        ELSE LET b    == Slice(Buf(blocks, r.blockB), 0, n)
                 x    == Slice(Buf(blocks, r.blockX), 0, n)
                 a    == xor(Zeros(n), b, x)
                 alen == IntOf(buint64(Slice(a, 1, HeaderLen)))
             IN  IF ~InRange(HeaderLen, HeaderLen + alen, n)
                    \/ ~InRange(HeaderLen, HeaderLen + blen,
                                Len(Buf(blocks, r.blockB)))
                 THEN [out |-> Panicked, mem |-> blocks]
                 ELSE [out |-> Returned(
                                 Slice(a, HeaderLen, HeaderLen + alen)
                                 \o Slice(Buf(blocks, r.blockB), HeaderLen,
                                          HeaderLen + blen),
                                 broken),
                       mem |-> blocks]

\* "last case possible, B is broken": reconstruct B from A and X
RebuildB(blocks, r, broken) ==
    LET n    == Len(blocks[1]) - SumLen
        alen == IntOf(r.alen)
    IN  IF n < 0 \/ ~InRange(0, n, Len(Buf(blocks, r.blockA)))
           \/ ~InRange(0, n, Len(Buf(blocks, r.blockX)))
           \/ ~InRange(1, HeaderLen, n)
        THEN [out |-> Panicked, mem |-> blocks]
        ELSE LET a    == Slice(Buf(blocks, r.blockA), 0, n)
                 x    == Slice(Buf(blocks, r.blockX), 0, n)
                 b    == xor(Zeros(n), a, x)
                 blen == IntOf(buint64(Slice(b, 1, HeaderLen)))
             IN  IF ~InRange(HeaderLen, HeaderLen + alen,
                             Len(Buf(blocks, r.blockA)))
                    \/ ~InRange(HeaderLen, HeaderLen + blen, n)
                 THEN [out |-> Panicked, mem |-> blocks]
                 ELSE LET ap == AppendInto(blocks, r.blockA, alen,
                                  Slice(b, HeaderLen, HeaderLen + blen))
                      IN  [out |-> Returned(ap.result, broken),
                           mem |-> ap.mem]

\* BadCase without its last test.
BadCaseNoBX(r) ==
    IF ~r.agood /\ ~r.bgood
    THEN "block A and B are bad, can't reconstruct"
    ELSE IF ~r.agood /\ ~r.xgood
    THEN "block A and X are bad, can't reconstruct"
    ELSE ""

\* "bad cases first": the error of Decode when two roles are not good,
\* "" when at most one is not.
BadCase(r) ==
    IF ~r.agood /\ ~r.bgood
    THEN "block A and B are bad, can't reconstruct"
    ELSE IF ~r.agood /\ ~r.xgood
    THEN "block A and X are bad, can't reconstruct"
    ELSE IF ~r.bgood /\ ~r.xgood
    THEN "block B and X are bad, can't reconstruct"
    ELSE ""

\* Decode after the three validate calls: v[i] is validate(block i) as the
\* call saw it, blocks are the buffers as they are now.
Assemble(blocks, v) ==
    LET broken == BrokenOf(v)
        r      == RolesOf(v)
    IN  IF BadCase(r) # ""
        THEN [out |-> Failed(BadCase(r)), mem |-> blocks]
        ELSE IF r.agood /\ r.bgood /\ r.xgood
        THEN PassThrough(blocks, r, 0)
        ELSE IF r.agood /\ r.bgood /\ ~r.xgood
        THEN PassThrough(blocks, r, broken)
        ELSE IF r.bgood /\ r.xgood
        THEN RebuildA(blocks, r, broken)
        ELSE RebuildB(blocks, r, broken)

\* Decode(block1, block2, block3), run alone: what it returns (out) and
\* the three buffers as it leaves them (mem).
Decode(blocks) ==
    IF SizeMismatch(blocks)
    THEN [out |-> Failed("blocks are of different sizes"), mem |-> blocks]
    ELSE LET v == [i \in 1..3 |-> validate(blocks[i])]
         IN  IF \E i \in 1..3 : v[i].panic
             THEN [out |-> Panicked, mem |-> blocks]
             ELSE Assemble(blocks, v)

\* ------------------------------------------------------- the callers
\* "hello, there" of TestEncodeDecode and a run of 0xFF bytes; a payload
\* is the first n bytes of one of them, repeated as often as needed.
Texts ==
    { << 104, 101, 108, 108, 111, 44, 32, 116, 104, 101, 114, 101 >>,
      << 255 >> }

Prefix(t, n) == [i \in 1..n |-> t[((i - 1) % Len(t)) + 1]]

Payloads == { Prefix(t, n) : t \in Texts, n \in 0..MaxLen }

\* The six orders in which a caller can hand the three blocks to Decode.
Orders ==
    { p \in [1..3 -> 1..3] : \A i, j \in 1..3 : p[i] = p[j] => i = j }

\* Offsets at which flipbits flips a bit: the order byte, the low byte of
\* the length, the first byte after the header, the last checksum byte.
FlipAt(block) == { 0, HeaderLen - 1, HeaderLen, Len(block) - 1 }

\* flipbits(b, 1) with bit 0 of byte at drawn: a copy with that bit flipped.
flipbits(b, at) ==
    [i \in 1..Len(b) |-> IF i = at + 1 THEN BXor(b[i], 1) ELSE b[i]]

Procs == {1, 2}

VARIABLES
    pc,       \* "new" before Encode, "encoded" after it
    data,     \* the payload given to Encode
    enc,      \* the blocks <<a, b, x>> as Encode returned them
    order,    \* order[i]: which of a, b, x (1..3) argument i of Decode is
    blocks,   \* the three buffers handed to Decode, in argument order
    ndecode,  \* number of Decode calls made on blocks
    before,   \* blocks as they were when the last Decode call began
    res,      \* what the last Decode call returned
    prev,     \* what the Decode call before it returned
    cpc,      \* concurrent Decode calls: where each one is
    cv,       \* concurrent Decode calls: the validate results each one has
    cres,     \* concurrent Decode calls: what each one returned
    snap,     \* blocks as they were when the concurrent calls began
    call,     \* a direct call of xor or of an integer codec: its arguments
    ret       \* what that call left behind

vars == << pc, data, enc, order, blocks, ndecode, before, res, prev,
           cpc, cv, cres, snap, call, ret >>

seqvars == << ndecode, before, res, prev >>
concvars == << cpc, cv, cres, snap >>
unitvars == << call, ret >>

NoResult ==
    [result |-> << >>, resultNil |-> TRUE, broken |-> 0,
     err |-> "none", panic |-> FALSE]

NoBlocks == << << >>, << >>, << >> >>

NoValidate == [panic |-> FALSE, pos |-> 0, len |-> U64Zero, good |-> FALSE]

NoCall == [fn |-> "none"]

InitCallers ==
    /\ pc = "new"
    /\ data = << >>
    /\ enc = NoBlocks
    /\ order = << 1, 2, 3 >>
    /\ blocks = NoBlocks
    /\ ndecode = 0
    /\ before = NoBlocks
    /\ res = NoResult
    /\ prev = NoResult
    /\ cpc = [p \in Procs |-> "idle"]
    /\ cv = [p \in Procs |-> [i \in 1..3 |-> NoValidate]]
    /\ cres = [p \in Procs |-> NoResult]
    /\ snap = NoBlocks

Init ==
    /\ InitCallers
    /\ call = NoCall
    /\ ret = NoCall

\* No Decode call has begun on the buffers.
Untouched == ndecode = 0 /\ \A p \in Procs : cpc[p] = "idle"

\* Argument i still holds the block Encode returned.
Intact(i) == blocks[i] = enc[order[i]]

\* One more block may be lost or corrupted, and argument i is whole.
MayHurt(i) ==
    /\ pc = "encoded" /\ Untouched /\ Intact(i)
    /\ Cardinality({ j \in 1..3 : ~Intact(j) }) < MaxBad

\* blockA, blockB, blockX, err := Encode(data), kept in the order o.
DoEncode(p, o) ==
    /\ pc = "new"
    /\ pc' = "encoded"
    /\ data' = p
    /\ order' = << o[1], o[2], o[3] >>
    /\ LET e == Encode(p)
       IN  /\ enc' = e
           /\ blocks' = [i \in 1..3 |-> e[o[i]]]
    /\ UNCHANGED << seqvars, concvars >>
    /\ UNCHANGED unitvars

\* A block is lost: emptyBlock := make([]byte, len(blockA)) in its place.
Zero(i) ==
    /\ MayHurt(i)
    /\ blocks' = [blocks EXCEPT ![i] = Zeros(Len(blocks[i]))]
    /\ UNCHANGED << pc, data, enc, order, seqvars, concvars >>
    /\ UNCHANGED unitvars

\* A block is corrupted: flipbits(block, 1) in its place.
Flip(i, at) ==
    /\ MayHurt(i)
    /\ at \in FlipAt(blocks[i])
    /\ blocks' = [blocks EXCEPT ![i] = flipbits(blocks[i], at)]
    /\ UNCHANGED << pc, data, enc, order, seqvars, concvars >>
    /\ UNCHANGED unitvars

\* A block comes back k bytes short.
Truncate(i, k) ==
    /\ MayHurt(i)
    /\ blocks' = [blocks EXCEPT ![i] = Slice(blocks[i], 0, Len(blocks[i]) - k)]
    /\ UNCHANGED << pc, data, enc, order, seqvars, concvars >>
    /\ UNCHANGED unitvars

\* result, broken, err := Decode(block1, block2, block3)
DoDecode ==
    /\ pc = "encoded"
    /\ ndecode < MaxDecode
    /\ \A p \in Procs : cpc[p] = "idle"
    /\ LET d == Decode(blocks)
       IN  /\ res' = d.out
           /\ blocks' = d.mem
    /\ before' = blocks
    /\ prev' = res
    /\ ndecode' = ndecode + 1
    /\ UNCHANGED << pc, data, enc, order, concvars >>
    /\ UNCHANGED unitvars

Next ==
    \/ \E p \in Payloads, o \in Orders : DoEncode(p, o)
    \/ \E i \in 1..3 : Zero(i)
    \/ \E i \in 1..3 : \E at \in FlipAt(blocks[i]) : Flip(i, at)
    \/ \E i \in 1..3, k \in 1..MaxTrunc : Truncate(i, k)
    \/ DoDecode

Spec == Init /\ [][Next]_vars

\* ---------------------------------------------------- concurrent calls
\* Two goroutines call Decode on the same three buffers.  A call is the
\* size test, the three validate calls and the rest of Decode, each of
\* them one step; steps of the two calls interleave.
Go ==
    /\ pc = "encoded" /\ Untouched
    /\ cpc' = [p \in Procs |-> "check"]
    /\ snap' = blocks
    /\ UNCHANGED << pc, data, enc, order, blocks, seqvars, cv, cres >>
    /\ UNCHANGED unitvars

\* if len(block1) != len(block2) && len(block2) != len(block3)
Check(p) ==
    /\ cpc[p] = "check"
    /\ IF SizeMismatch(blocks)
       THEN /\ cres' = [cres EXCEPT
                          ![p] = Failed("blocks are of different sizes")]
            /\ cpc' = [cpc EXCEPT ![p] = "done"]
       ELSE /\ cpc' = [cpc EXCEPT ![p] = "validate1"]
            /\ UNCHANGED cres
    /\ UNCHANGED << pc, data, enc, order, blocks, seqvars, cv, snap >>
    /\ UNCHANGED unitvars

ValidatePc == << "validate1", "validate2", "validate3", "assemble" >>

\* pos_i, len_i, good_i := validate(block_i)
Validate(p, i) ==
    /\ cpc[p] = ValidatePc[i]
    /\ LET vi == validate(blocks[i])
       IN  /\ cv' = [cv EXCEPT ![p][i] = vi]
           /\ IF vi.panic
              THEN /\ cres' = [cres EXCEPT ![p] = Panicked]
                   /\ cpc' = [cpc EXCEPT ![p] = "done"]
              ELSE /\ cpc' = [cpc EXCEPT ![p] = ValidatePc[i + 1]]
                   /\ UNCHANGED cres
    /\ UNCHANGED << pc, data, enc, order, blocks, seqvars, snap >>
    /\ UNCHANGED unitvars

\* The switches, the bad cases and the reassembly of Decode.
Finish(p) ==
    /\ cpc[p] = "assemble"
    /\ LET d == Assemble(blocks, cv[p])
       IN  /\ cres' = [cres EXCEPT ![p] = d.out]
           /\ blocks' = d.mem
    /\ cpc' = [cpc EXCEPT ![p] = "done"]
    /\ UNCHANGED << pc, data, enc, order, seqvars, cv, snap >>
    /\ UNCHANGED unitvars

NextConc ==
    \/ \E p \in Payloads, o \in Orders : DoEncode(p, o)
    \/ \E i \in 1..3 : Zero(i)
    \/ Go
    \/ \E p \in Procs : Check(p)
    \/ \E p \in Procs, i \in 1..3 : Validate(p, i)
    \/ \E p \in Procs : Finish(p)

SpecConc == Init /\ [][NextConc]_vars

\* ------------------------------------------------ buffers of any content
\* Decode takes any three byte slices.  Besides the blocks of Encode, the
\* callers below hand it buffers cut to any length, and buffers whose last
\* four bytes are the right checksum of a header that declares any length.

\* b with its last four bytes set to the checksum of the bytes before them.
Seal(b) ==
    IF Len(b) < SumLen THEN b
    ELSE Put(b, Len(b) - SumLen, uint32b(chcksum(Slice(b, 0, Len(b) - SumLen))))

\* b with the length field of its header set to n.
SetLen(b, n) ==
    IF Len(b) < HeaderLen THEN b ELSE Put(b, 1, uint64b(U64(n)))

ForgedLens == { 0, 255 }

Pristine(i) == blocks[i] = Slice(enc[order[i]], 0, Len(blocks[i]))

\* All three buffers are cut to their first k bytes.
Shorten(k) ==
    /\ pc = "encoded"
    /\ Untouched
    /\ \A i \in 1..3 : Intact(i)
    /\ k < Len(blocks[1])
    /\ blocks' = [i \in 1..3 |-> Slice(blocks[i], 0, k)]
    /\ UNCHANGED << pc, data, enc, order, seqvars, concvars >>
    /\ UNCHANGED unitvars

\* Buffer i declares n payload bytes and carries the checksum of that.
Forge(i, n) ==
    /\ pc = "encoded"
    /\ Untouched
    /\ Pristine(i)
    /\ blocks' = [blocks EXCEPT ![i] = Seal(SetLen(blocks[i], n))]
    /\ blocks'[i] # blocks[i]
    /\ UNCHANGED << pc, data, enc, order, seqvars, concvars >>
    /\ UNCHANGED unitvars

NextRaw ==
    \/ \E p \in Payloads : DoEncode(p, << 1, 2, 3 >>)
    \/ \E k \in 0..MaxShort : Shorten(k)
    \/ \E i \in 1..3, n \in ForgedLens : Forge(i, n)
    \/ DoDecode

SpecRaw == Init /\ [][NextRaw]_vars

\* ------------------------------------------- xor and the integer codecs
\* Direct calls of xor, uint32b/buint32 and uint64b/buint64, the way
\* TestXOR and TestBinEncoding make them: the arguments are drawn at the
\* start, one step makes the calls and keeps what they left behind.

XorTexts ==
    { << 104, 101, 108, 108, 111, 32, 32 >>,      \* "hello  "
      << 98, 111, 110, 106, 111, 117, 114 >>,     \* "bonjour"
      << 255 >> }

\* What dst holds before the call: make()'s zeros, or earlier content.
Fill(n, v) == [i \in 1..n |-> v]

XorCalls ==
    { [fn |-> "xor", dst |-> Fill(n, v), a |-> Prefix(s, n), b |-> Prefix(t, n)] :
          n \in 0..MaxXorLen, v \in { 0, 170 }, s \in XorTexts, t \in XorTexts }

\* 16-bit limbs: the values of TestBinEncoding and the ends of the range.
LimbSamples == { 0, 1, 2, 3, 255, 256, 291, 17767, Limb \div 2, Limb - 1 }

LimbEnds == { 0, 1, 291, Limb \div 2, Limb - 1 }

Uint32Calls ==
    { [fn |-> "uint32", u |-> << h, l >>] : h \in LimbSamples, l \in LimbSamples }

Uint64Calls ==
    { [fn |-> "uint64", u |-> << w, x, y, z >>] :
          w \in LimbEnds, x \in LimbEnds, y \in LimbEnds, z \in LimbEnds }

InitUnit ==
    /\ InitCallers
    /\ call \in XorCalls \cup Uint32Calls \cup Uint64Calls
    /\ ret = NoCall

\* xor(x, a, b); xor(recA, x, b); xor(recB, x, a)
DoXor ==
    /\ call.fn = "xor"
    /\ ret = NoCall
    /\ LET n == Len(call.dst)
           x == xor(call.dst, call.a, call.b)
       IN  ret' = [fn |-> "xor", x |-> x,
                   recA |-> xor(Zeros(n), x, call.b),
                   recB |-> xor(Zeros(n), x, call.a)]
    /\ UNCHANGED << pc, data, enc, order, blocks, seqvars, concvars, call >>

\* uint32b(b, u); got := buint32(b)
DoUint32 ==
    /\ call.fn = "uint32"
    /\ ret = NoCall
    /\ LET b == uint32b(call.u)
       IN  ret' = [fn |-> "uint32", b |-> b, u |-> buint32(b)]
    /\ UNCHANGED << pc, data, enc, order, blocks, seqvars, concvars, call >>

\* uint64b(b, u); got := buint64(b)
DoUint64 ==
    /\ call.fn = "uint64"
    /\ ret = NoCall
    /\ LET b == uint64b(call.u)
       IN  ret' = [fn |-> "uint64", b |-> b, u |-> buint64(b)]
    /\ UNCHANGED << pc, data, enc, order, blocks, seqvars, concvars, call >>

NextUnit == DoXor \/ DoUint32 \/ DoUint64

SpecUnit == InitUnit /\ [][NextUnit]_vars

\* ------------------------------------------------------------- claims
\* The stored checksum of b differs from the checksum of its bytes.
SumFails(b) ==
    Len(b) >= SumLen
    /\ Slice(b, Len(b) - SumLen, Len(b))
         # uint32b(chcksum(Slice(b, 0, Len(b) - SumLen)))

SumPasses(b) ==
    Len(b) >= HeaderLen
    /\ Slice(b, Len(b) - SumLen, Len(b))
         = uint32b(chcksum(Slice(b, 0, Len(b) - SumLen)))

\* The last Decode call was given the blocks as Encode returned them.
GivenWhole == \A i \in 1..3 : before[i] = enc[order[i]]

\* The arguments of the last Decode call that were not what Encode returned.
GivenHurt == { i \in 1..3 : before[i] # enc[order[i]] }

SameLengths ==
    Len(before[1]) = Len(before[2]) /\ Len(before[2]) = Len(before[3])

\* Which of a, b, x (1..3) the returned broken block is, 0 for nil.
BrokenRole == IF res.broken = 0 THEN 0 ELSE order[res.broken]

\* The data a block declares: block[9 : 9+length].
DeclaredData(b) ==
    Slice(b, HeaderLen, HeaderLen + IntOf(buint64(Slice(b, 1, HeaderLen))))

\* The argument of the last Decode call whose order byte is k.
GivenWithOrder(k) == before[CHOOSE i \in 1..3 : before[i][1] = k]

\* C1: Decode of the three blocks Encode(p) returned gives no error, a
\* payload equal to p and no broken block, for every payload p.
RoundTrip ==
    (ndecode = 1 /\ GivenWhole /\ order = << 1, 2, 3 >>)
        => /\ ~res.panic
           /\ res.err = "nil"
           /\ res.result = data
           /\ res.broken = 0

\* C2: whatever order the three blocks of Encode are passed in, Decode
\* returns what it returns for them in the order a, b, x: the same
\* payload, the same error and the same broken block.
OrderIndependence ==
    (ndecode = 1 /\ GivenWhole)
        => LET ref == Decode(enc).out
           IN  /\ res.result = ref.result
               /\ res.resultNil = ref.resultNil
               /\ res.err = ref.err
               /\ res.panic = ref.panic
               /\ BrokenRole = ref.broken

OrderIndependenceWitness ==
    /\ ndecode = 1 /\ GivenWhole
    /\ order = << 3, 1, 2 >>
    /\ res.err = "nil"
    /\ Len(res.result) = MaxLen

\* C3: with exactly one of the three blocks replaced by zeros or by a copy
\* with a bit flipped, Decode returns no error and the payload p.
SingleBlockTolerance ==
    (ndecode = 1 /\ Cardinality(GivenHurt) = 1 /\ SameLengths)
        => /\ ~res.panic
           /\ res.err = "nil"
           /\ res.result = data

\* C4: when exactly one of the three blocks of one Encode call fails the
\* checksum and the other two pass, buffers of equal length, Decode
\* succeeds and broken is the buffer that failed, left as it was, in
\* whatever slot it was passed.
BrokenBlockReport ==
    (/\ ndecode = 1 /\ SameLengths
     /\ \E i \in 1..3 :
            /\ SumFails(before[i])
            /\ \A j \in 1..3 \ {i} : before[j] = enc[order[j]])
        => /\ ~res.panic
           /\ res.err = "nil"
           /\ res.broken # 0
           /\ SumFails(before[res.broken])
           /\ blocks[res.broken] = before[res.broken]

BrokenBlockReportWitness ==
    /\ ndecode = 1 /\ SameLengths
    /\ SumFails(before[1]) /\ order[1] = 1
    /\ before[2] = enc[order[2]] /\ before[3] = enc[order[3]]
    /\ res.broken = 1
    /\ Len(data) = MaxLen

\* C5: when at least two of the three buffers fail the checksum, Decode
\* returns an error, a nil payload and a nil broken block.
TwoBadFail ==
    (ndecode >= 1
     /\ Cardinality({ i \in 1..3 : SumFails(before[i]) }) >= 2)
        => /\ ~res.panic
           /\ res.err # "nil"
           /\ res.resultNil
           /\ res.broken = 0

TwoBadFailWitness ==
    /\ ndecode = 1 /\ SameLengths
    /\ SumFails(before[2]) /\ SumFails(before[3]) /\ SumPasses(before[1])
    /\ order[1] = 1
    /\ res.err = "block B and X are bad, can't reconstruct"

\* C6: three buffers that are not all of the same length get the size
\* error and no payload.
SizeMismatchRejected ==
    (ndecode >= 1 /\ ~SameLengths)
        => /\ res.err = "blocks are of different sizes"
           /\ res.resultNil

\* C7: a Decode call leaves every byte of its three buffers as it was.
DecodeKeepsInputs ==
    ndecode >= 1 => blocks = before

\* C8: a second Decode call on the same three buffers returns what the
\* first returned.
RepeatableDecode ==
    ndecode >= 2 => res = prev

\* C10: when all three buffers pass the checksum, Decode returns the data
\* A declares followed by the data B declares, and no broken block.
AllGoodFastPath ==
    (ndecode >= 1 /\ \A i \in 1..3 : SumPasses(before[i]))
        => /\ ~res.panic
           /\ res.err = "nil"
           /\ res.broken = 0
           /\ res.result = DeclaredData(GivenWithOrder(1))
                             \o DeclaredData(GivenWithOrder(2))

AllGoodFastPathWitness ==
    /\ ndecode = 1
    /\ \A i \in 1..3 : SumPasses(before[i])
    /\ order = << 2, 3, 1 >>
    /\ Len(res.result) = MaxLen
    /\ res.broken = 0

\* C9: each of two Decode calls running together on the same buffers
\* returns what one Decode call alone returns on them.
ConcurrentAsAlone ==
    \A p \in Procs : cpc[p] = "done" => cres[p] = Decode(snap).out

\* C11: every Decode call completes, for any three buffers: it returns
\* either a payload with a nil error or an error with no payload, and it
\* never aborts on an out-of-range slice.
DecodeCompletes ==
    ndecode >= 1 =>
        /\ ~res.panic
        /\ res.err = "nil" <=> ~res.resultNil

\* The length a block declares in its header.
DeclaredLen(b) == IntOf(buint64(Slice(b, 1, HeaderLen)))

\* ceil(n / 2)
HalfUp(n) == (n + 1) \div 2

\* C12: Encode splits the payload at floor(len/2): block A declares that
\* length and carries payload[0:split], block B carries payload[split:],
\* the two declared lengths sum to len(payload), and B declares one byte
\* more than A exactly when len(payload) is odd.
PayloadSplit ==
    pc = "encoded" =>
        LET split == Len(data) \div 2
        IN  /\ DeclaredLen(enc[1]) = split
            /\ DeclaredData(enc[1]) = Slice(data, 0, split)
            /\ DeclaredData(enc[2]) = Slice(data, split, Len(data))
            /\ DeclaredLen(enc[1]) + DeclaredLen(enc[2]) = Len(data)
            /\ (DeclaredLen(enc[2]) = DeclaredLen(enc[1]) + 1
                    <=> Len(data) % 2 = 1)
            /\ (DeclaredLen(enc[2]) = DeclaredLen(enc[1])
                    <=> Len(data) % 2 = 0)

\* C13: the three blocks of Encode have the same total length, and it is
\* ceil(len(payload) / 2) + 9 + 4.
BlockLength ==
    pc = "encoded" =>
        /\ Len(enc[1]) = Len(enc[2])
        /\ Len(enc[2]) = Len(enc[3])
        /\ Len(enc[1]) = HalfUp(Len(data)) + HeaderLen + SumLen

\* The last 4 bytes of b are the checksum of the bytes before them.
SumAtEnd(b) ==
    Slice(b, Len(b) - SumLen, Len(b))
        = uint32b(chcksum(Slice(b, 0, Len(b) - SumLen)))

\* C14: in the blocks <<a, b, x>> of Encode, x[i] = a[i] XOR b[i] for every
\* i in [0, 9 + B's declared length), so x's first byte is 3 and x's length
\* field is A's length XOR B's length; and the last 4 bytes of each of a,
\* b and x are the checksum of that block's preceding bytes.
ParityFraming ==
    pc = "encoded" =>
        LET a == enc[1]
            b == enc[2]
            x == enc[3]
        IN  /\ \A i \in 1..(HeaderLen + DeclaredLen(b)) :
                   x[i] = XorBits(a[i], b[i], 8)
            /\ x[1] = 3
            /\ \A k \in 1..4 :
                   buint64(Slice(x, 1, HeaderLen))[k]
                     = XorBits(buint64(Slice(a, 1, HeaderLen))[k],
                               buint64(Slice(b, 1, HeaderLen))[k], 16)
            /\ SumAtEnd(a) /\ SumAtEnd(b) /\ SumAtEnd(x)

\* Encode has framed a payload whose halves differ in length and in bytes.
ParityFramingWitness ==
    /\ pc = "encoded"
    /\ Len(data) >= 8
    /\ DeclaredLen(enc[1]) # DeclaredLen(enc[2])
    /\ \E i \in (HeaderLen + 1)..(HeaderLen + DeclaredLen(enc[1])) :
           enc[3][i] # 0 /\ enc[3][i] # enc[1][i]

\* The last Decode call got past the size test and called validate on each
\* of its three arguments.
ValidateCalled == ndecode >= 1 /\ ~SizeMismatch(before)

\* The header of b as it stands: order byte and declared length.
HeaderOf(b) == [pos |-> b[1], len |-> buint64(Slice(b, 1, HeaderLen))]

\* C15: validate returns the order byte and the declared length read from
\* the header whether or not the checksum matches; only the boolean it
\* returns depends on the comparison.
ValidateReadsHeader ==
    ValidateCalled =>
        \A i \in 1..3 :
            Len(before[i]) >= HeaderLen =>
                LET v == validate(before[i])
                IN  /\ v.pos = HeaderOf(before[i]).pos
                    /\ v.len = HeaderOf(before[i]).len
                    /\ v.good = SumPasses(before[i])

\* C15, as the code has it: validate returns the order byte and the
\* declared length of the header only when the checksum matches; when it
\* does not, the order is 0, the length is 0 and the boolean is false.
ValidateHeaderIfGood ==
    ValidateCalled =>
        \A i \in 1..3 :
            Len(before[i]) >= HeaderLen =>
                LET v == validate(before[i])
                IN  /\ v.good = SumPasses(before[i])
                    /\ v.good => /\ v.pos = HeaderOf(before[i]).pos
                                 /\ v.len = HeaderOf(before[i]).len
                    /\ ~v.good => v.pos = 0 /\ v.len = U64Zero

\* Decode validated a buffer whose checksum fails and whose header still
\* names an order and a length.
ValidateHeaderIfGoodWitness ==
    /\ ValidateCalled
    /\ \E i \in 1..3 :
           /\ SumFails(before[i])
           /\ HeaderOf(before[i]).pos # 0
           /\ HeaderOf(before[i]).len # U64Zero
           /\ ~validate(before[i]).good

\* C16: xor(dst, a, b) on three buffers of the same length n leaves
\* dst[i] = a[i] XOR b[i] for every i in [0, n), for every n (0, below 8,
\* not a multiple of 8), dst keeps its length, and with x = a XOR b,
\* xor(x, b) gives a back and xor(x, a) gives b back.
XorBytewise ==
    ret.fn = "xor" =>
        /\ Len(ret.x) = Len(call.dst)
        /\ \A i \in 1..Len(call.dst) :
               ret.x[i] = XorBits(call.a[i], call.b[i], 8)
        /\ ret.recA = call.a
        /\ ret.recB = call.b

\* xor ran both of its loops, on a dst that held something else before.
XorBytewiseWitness ==
    /\ ret.fn = "xor"
    /\ Len(call.dst) > 8
    /\ Len(call.dst) % 8 # 0
    /\ call.a # call.b
    /\ \A i \in 1..Len(call.dst) : call.dst[i] # ret.x[i]

\* C18: buint32(uint32b(u)) = u for every 32-bit u and
\* buint64(uint64b(u)) = u for every 64-bit u; the bytes are big-endian,
\* the most significant byte of u at index 0.
CodecRoundTrip ==
    /\ ret.fn = "uint32" =>
           /\ ret.u = call.u
           /\ Len(ret.b) = 4
           /\ \A i \in 1..4 : ret.b[i] \in Byte
           /\ ret.b[1] = call.u[1] \div 256
           /\ ret.b[4] = call.u[2] % 256
    /\ ret.fn = "uint64" =>
           /\ ret.u = call.u
           /\ Len(ret.b) = 8
           /\ \A i \in 1..8 : ret.b[i] \in Byte
           /\ ret.b[1] = call.u[1] \div 256
           /\ ret.b[8] = call.u[4] % 256

\* uint64b and buint64 were run on a value with its top bit set and
\* different first and last bytes.
CodecRoundTripWitness ==
    /\ ret.fn = "uint64"
    /\ ret.b[1] >= 128
    /\ ret.b[1] # ret.b[8]
    /\ call.u[1] # call.u[4]
    /\ ret.u = call.u

\* The three blocks of Encode in the order the caller passes them.
Whole == [i \in 1..3 |-> enc[order[i]]]

\* The first Decode call got the blocks of Encode with exactly one of them
\* changed, same length as the others, and that one fails its checksum.
OneFails ==
    /\ ndecode = 1
    /\ SameLengths
    /\ \E i \in 1..3 : GivenHurt = { i } /\ SumFails(before[i])

\* C17: when exactly one of the three blocks of Encode fails validation,
\* Decode returns the payload that Decode returns on the three intact
\* blocks, byte for byte, for every payload and every argument order.
ReconstructionAsFastPath ==
    OneFails =>
        /\ res.err = "nil"
        /\ Decode(Whole).out.err = "nil"
        /\ res.result = Decode(Whole).out.result

\* Block A was lost and rebuilt from B and X, for a payload of some length.
ReconstructionAsFastPathWitness ==
    /\ OneFails
    /\ order[CHOOSE i \in 1..3 : GivenHurt = { i }] = 1
    /\ Len(res.result) >= 8
    /\ res.broken # 0

====
